---- MODULE Spec2Model ----
(***************************************************************************)
(* One ConversationRelay connection of the Pokedex call center backend     *)
(* (backend/src/routes/twilio.ts) together with the process-wide services  *)
(* it drives: the MessageQueue, the StreamCoordinator, the SessionStore,   *)
(* the BatchWriter and the conversations row of the CallDatabase.          *)
(*                                                                         *)
(* Every prompt envelope is numbered in arrival order (1, 2, ...).  The    *)
(* processPrompt invocation for prompt k creates AbortController k, the    *)
(* deadline timer k and generation k, so one index names all three.        *)
(* A step of the model is one macrotask of the event loop: an inbound      *)
(* envelope handled up to its first real suspension, the resumption of a   *)
(* handler after the generator or a timer answered, or a timer callback.   *)
(***************************************************************************)
EXTENDS Integers, Sequences, FiniteSets, TLC

\* ---------------------------------------------------------------- bounds
MaxPrompts == 3        \* prompt envelopes on the connection, under Spec
MaxPromptsRace == 4    \* the same, under SpecRace
MaxPromptsStore == 2   \* the same, under SpecStore
MaxPromptsSlow == 2    \* the same, under SpecSlowStore
MaxChunks == 1         \* text chunks one generation yields
MaxBwCalls == 10       \* call ids writing through the BatchWriter
BwPrefill == 8         \* calls with an item pending in the BatchWriter beforehand
MaxBwEnqueues == 2     \* BatchWriter.enqueue calls when it is driven alone
MqPrefill == 10        \* entries the MessageQueue has created beforehand
MaxEnqueues == 1       \* further entries it creates when driven alone
MaxTime == 500         \* the clock stops advancing at this many ms
MaxPromptsName == 2    \* prompt envelopes, under SpecName
MaxPromptsHeart == 2   \* prompts when the activity intervals are followed
MaxPromptsFail == 2    \* prompts when the store's statements may throw
MaxPromptsPing == 2    \* prompts when other envelopes arrive as well
MaxPings == 2          \* pong replies sent
MaxQuickCalls == 2     \* getCallerQuickly calls made
MaxCoordTime == 90000  \* ms the clock runs to when the coordinator is driven
MaxAge == 600          \* seconds the clock runs to when recovery is driven
MaxRecentTurns == 2    \* turns of the stored conversation that is recovered

\* ------------------------------------------------------ program constants
maxQueueSize == 10
deduplicationWindow == 500
streamTimeout == 30000
staleThreshold == 60000

RecoveryWindow == 300  \* seconds: "within last 5 minutes"

maxBatchSize == 10

Max2(a, b) == IF a >= b THEN a ELSE b

MaxIds == Max2(Max2(MaxPrompts, MaxPromptsRace),
               Max2(MaxPromptsStore, MaxPromptsSlow))

Prompts == 1..MaxIds
NoSid == "none"
CallId == "CA1"
NoPhone == "none"
Phone == "+15550100"
\* a Map entry that is absent, for the per-call maps
NoSession == [has |-> FALSE, msgs |-> <<>>]
NoStream == [has |-> FALSE, isActive |-> FALSE]
NoQueue == [has |-> FALSE, items |-> <<>>]
NoItem == [has |-> FALSE, messages |-> <<>>, ended |-> FALSE]
\* no row for the call in the conversations table
NoRow == [has |-> FALSE, messages |-> <<>>, ended |-> FALSE]
PromptTexts == {"pikachu", "stop"}
\* the call ids the MessageQueue is driven with on its own
MqCalls == {"CA1", "CA2"}
\* the call ids the BatchWriter is driven with on its own
BwCalls == 1..MaxBwCalls

VARIABLES
  conn,          \* "new" (no setup envelope yet), "open", "closed"
  callSid,       \* closure variable callSid of the connection
  phoneNumber,   \* closure variable phoneNumber (from the URL's ?phone=)
  currentAbort,  \* closure variable currentAbort: 0 (null) or a controller
  aborted,       \* controller -> reason of its first abort(), or "none"
  sessions,      \* SessionStore entry of the call: NoSession or the turns
  streams,       \* StreamCoordinator entry of the call: NoStream or a record
  queues,        \* MessageQueue entry of the call: NoQueue or the entries
  now,           \* Date.now(), in ms
  nPrompts,      \* prompt envelopes received so far
  gen,           \* prompt -> where its processing stands
  root,          \* prompt -> the prompt whose onMessage call processes it
  withUser,      \* prompt -> getTextStream's local withUser while it awaits
  chunks,        \* prompt -> chunks sendStream has consumed so far
  pacing,        \* dequeued prompts waiting out the 500 ms delay, in order
  timers,        \* armed deadline timers (startTimeout), in arming order
  qDuring,       \* prompt -> generation current when it was enqueued (0: not)
  stopSent,      \* {type:"stop"} envelopes sent
  bwQueue,       \* BatchWriter.queue entry of the call: NoItem or the item
  bwTimer,       \* BatchWriter.timer is armed
  immediates,    \* callbacks handed to setImmediate, in order
  conv,          \* the call's row of the conversations table, or NoRow
  endWritten,    \* an UPDATE carrying the end-of-call marker has run
  setupPc,       \* where handleSetup is suspended, "none" before, "done" after
  setupDeadline, \* the read handleSetup awaits is raced against a timer
  ttsStoppedByUser, \* message -> ttsStoppedByUser of the state object built
                    \* for it by onMessage
  stopDuring,    \* stop request -> the generation it met, and whether streaming
  textSent,      \* prompt -> {type:"text"} chunk envelopes sendStream sent
  relayState,    \* message (0: the setup envelope) -> isNewCaller and
                 \* nameExtracted of the state object onMessage built for it
  nameIn,        \* the prompts whose text introduces a name
  savedName,     \* saveCallerName was called for the phone number
  mq,            \* MessageQueue.queues: call id -> NoQueue or the entries
  mqN,           \* entries the MessageQueue has created so far
  bq,            \* BatchWriter.queue: the items, in the Map's insertion order
  bqTimer,       \* BatchWriter.timer: null, or armed and since when
  bqWrites,      \* batches handed to setImmediate and not yet written
  bqStore,       \* call id -> the last update the store was handed for it
  bqLast,        \* call id -> the last update handed to enqueue for it
  bqN,           \* BatchWriter.enqueue calls so far
  recentConv,    \* the latest conversations row of the phone number
  sc,            \* StreamCoordinator.streams: call id -> NoEntry or the entry
  sessionStore,  \* SessionStore.sessions of several calls: call id -> session
  quick,         \* the callers table and the getCallerQuickly calls made
  pongs,         \* number of {type:"pong"} envelopes sent
  heartbeats     \* generation -> its activity interval is running

hvars == <<conn, callSid, phoneNumber, currentAbort, aborted, sessions,
           streams, queues, now, nPrompts, gen, root, withUser, chunks,
           pacing, timers, qDuring, stopSent>>

svars == <<bwQueue, bwTimer, immediates, conv, endWritten>>

uvars == <<setupPc, setupDeadline>>

tvars == <<ttsStoppedByUser, stopDuring, textSent>>

nvars == <<relayState, nameIn, savedName>>

\* the services driven on their own, for any number of calls
bvars == <<bq, bqTimer, bqWrites, bqStore, bqLast, bqN>>

\* what the units below are driven on
yvars == <<pongs, heartbeats>>
xvars == <<recentConv, sc, sessionStore, quick, yvars>>

unitvars == <<mq, mqN, bvars, xvars>>
\* unitvars without heartbeats
zvars == <<mq, mqN, bvars, recentConv, sc, sessionStore, quick, pongs>>

vars == <<hvars, svars, uvars, tvars, nvars, unitvars>>

\* ------------------------------------------------------- SessionStore
Session(msgs) == [has |-> TRUE, msgs |-> msgs]

\* sessions.get(callSid) || []
SessionOrEmpty(s) == IF s.has THEN s.msgs ELSE <<>>

SessionGetOrInit(s, initial) == IF s.has THEN s ELSE Session(initial)

UserTurn(k) == <<"user", k>>

AssistantTurn(k) == <<"assistant", k>>

\* --------------------------------------------------- StreamCoordinator
IsStreamActiveNever(s) == FALSE

IsStreamActive(s) == s.has /\ s.isActive

RegisterStreamStart(s) ==
  IF IsStreamActive(s) THEN s ELSE [has |-> TRUE, isActive |-> TRUE]

RegisterStreamEnd(s) ==
  IF ~s.has THEN s ELSE [s EXCEPT !.isActive = FALSE]

ClearCall(s) == NoStream

\* -------------------------------------------------------- MessageQueue
IsDuplicate(q, type, content, t) ==
  \E i \in 1..Len(q) :
     /\ q[i].content = content
     /\ q[i].type = type
     /\ t - q[i].timestamp < deduplicationWindow
     /\ ~q[i].processed

EnqueueRoomKeepsAll(q) == q.items

\* the queue enqueue works on: created if missing, its oldest entry shifted
\* out when it is full
EnqueueRoom(q) ==
  IF Len(q.items) >= maxQueueSize THEN Tail(q.items) ELSE q.items

EnqueueAccepts(q, type, content, t) ==
  ~IsDuplicate(EnqueueRoom(q), type, content, t)

\* enqueue: the queue of the call afterwards
Enqueue(q, id, type, content, t) ==
  [has |-> TRUE,
   items |-> IF EnqueueAccepts(q, type, content, t)
               THEN Append(EnqueueRoom(q),
                           [id |-> id, type |-> type, content |-> content,
                            timestamp |-> t, processed |-> FALSE])
               ELSE EnqueueRoom(q)]

HasPending(q) == q.has /\ \E i \in 1..Len(q.items) : ~q.items[i].processed

Unprocessed(m) == ~m.processed

GetNextNewest(q) ==
  SelectSeq(q.items, Unprocessed)[Len(SelectSeq(q.items, Unprocessed))]

\* getNext: the first unprocessed entry (its caller checks hasPending first)
GetNext(q) == Head(SelectSeq(q.items, Unprocessed))

MarkProcessedKeepsEntry(q, id) ==
  IF ~q.has THEN q
  ELSE [q EXCEPT !.items = [i \in 1..Len(q.items) |->
                              IF q.items[i].id = id
                                THEN [q.items[i] EXCEPT !.processed = TRUE]
                                ELSE q.items[i]]]

\* markProcessed followed by its cleanQueue: processed entries are removed
\* and an emptied queue is deleted from the map
MarkProcessed(q, id) ==
  IF ~q.has \/ ~\E i \in 1..Len(q.items) : q.items[i].id = id
    THEN q
    ELSE LET marked == [i \in 1..Len(q.items) |->
                          IF q.items[i].id = id
                            THEN [q.items[i] EXCEPT !.processed = TRUE]
                            ELSE q.items[i]]
             cleaned == SelectSeq(marked, Unprocessed)
         IN  IF cleaned = <<>> THEN NoQueue
             ELSE [has |-> TRUE, items |-> cleaned]

QueueClear(q) == NoQueue

\* ------------------------------------------------------ AbortController
InFlight(k) == gen[k] \in {"wait", "streaming"}

\* abort(reason) on controller c: null is skipped and the first reason
\* sticks.  Nothing reads the signal of a controller whose generation has
\* ended, so its abort is not recorded.
Abort(ab, c, reason) ==
  IF c = 0 \/ ab[c] # "none" \/ ~InFlight(c) THEN ab
  ELSE [ab EXCEPT ![c] = reason]

\* extractNameFromResponse: the word after "my name is", or a text of one
\* word itself, capitalized; null for a text no pattern matches
ExtractName(text) ==
  CASE text = "my name is misty" -> "Misty"
    [] text = "pikachu" -> "Pikachu"
    [] text = "stop" -> "Stop"
    [] OTHER -> "none"

IsStopCommandNever(text) == FALSE

IsStopCommand(text) == text = "stop"

\* ---------------------------------------------- BatchWriter, CallDatabase
BwState == [q |-> bwQueue, t |-> bwTimer, im |-> immediates]

\* flush: the timer is cleared; a non-empty queue is copied, cleared and its
\* write handed to setImmediate
BwFlush(st) ==
  IF ~st.q.has THEN [st EXCEPT !.t = FALSE]
  ELSE [q |-> NoItem, t |-> FALSE,
        im |-> Append(st.im, [op |-> "flush", messages |-> st.q.messages,
                              ended |-> st.q.ended])]

\* enqueue: last write wins, the timer is armed if it is not, and an ended
\* item flushes at once (one call never reaches maxBatchSize entries)
BwEnqueue(st, messages, ended) ==
  LET st1 == [st EXCEPT !.q = [has |-> TRUE, messages |-> messages,
                               ended |-> ended],
                        !.t = TRUE]
  IN  IF ended THEN BwFlush(st1) ELSE st1

\* createConversation: the INSERT is handed to setImmediate
CreateConversation(st) ==
  [st EXCEPT !.im = Append(@, [op |-> "create", messages |-> <<>>,
                               ended |-> FALSE])]

SetStore(st) ==
  /\ bwQueue' = st.q
  /\ bwTimer' = st.t
  /\ immediates' = st.im

\* the flush timer (batchInterval) fires
BatchTimerFire ==
  /\ bwTimer
  /\ SetStore(BwFlush(BwState))
  /\ UNCHANGED <<hvars, uvars, conv, endWritten>>
  /\ UNCHANGED <<tvars, nvars, unitvars>>

\* the oldest setImmediate callback runs: the batch's loop calls
\* updateConversationMessages, which defers the UPDATE once more; the
\* UPDATE changes the row if there is one; the INSERT adds the row unless
\* the primary key exists
StatementRunUncaught(row, written, fails) == IF fails THEN NoRow ELSE written

\* the row after a prepared statement ran inside try/catch: a statement
\* that throws leaves the row as it was
StatementRun(row, written, fails) == IF fails THEN row ELSE written

\* the statements that do not throw
WriteSucceeds == {FALSE}

ImmediateRun(fails) ==
  /\ immediates # <<>>
  /\ LET task == Head(immediates) IN
       CASE task.op = "flush" ->
              /\ immediates' = Append(Tail(immediates),
                                      [task EXCEPT !.op = "update"])
              /\ UNCHANGED <<conv, endWritten>>
         [] task.op = "update" ->
              /\ immediates' = Tail(immediates)
              /\ conv' = StatementRun(conv,
                           IF conv.has
                             THEN [has |-> TRUE, messages |-> task.messages,
                                   ended |-> task.ended]
                             ELSE conv, fails)
              /\ endWritten' = (endWritten \/ (task.ended /\ ~fails))
         [] OTHER ->
              /\ immediates' = Tail(immediates)
              /\ conv' = StatementRun(conv,
                           IF conv.has THEN conv
                           ELSE [has |-> TRUE, messages |-> <<>>,
                                 ended |-> FALSE], fails)
              /\ UNCHANGED endWritten
  /\ UNCHANGED <<hvars, uvars, bwQueue, bwTimer>>
  /\ UNCHANGED <<tvars, nvars, unitvars>>

\* ------------------------------------------------------------ handleSetup
NoFlags == [isNewCaller |-> FALSE, nameExtracted |-> FALSE]

\* state.isNewCaller = !callerName, on the state object of the setup
\* envelope
SetNewCaller(rs, new) == [rs EXCEPT ![0].isNewCaller = new]

BaseSystemTurn == <<"system", 0>>

NewCallerSystemTurn == <<"system", 1>>

ReturningSystemTurn == <<"system", 2>>

\* the transcript of the phone number's latest conversation, when it is
\* unterminated, non-empty and younger than five minutes
RecentTranscript == <<BaseSystemTurn, <<"user", 0>>, <<"assistant", 0>>>>

\* the recovery from the row stored under this call id
RecoverBySid(s) ==
  IF conv.has /\ conv.messages # <<>> THEN Session(conv.messages) ELSE s

\* the recovery from the recent conversation of the phone number
RecoverRecent(s, recent) == IF recent THEN Session(RecentTranscript) ELSE s

CallerSystemTurn(known) ==
  IF known THEN ReturningSystemTurn ELSE NewCallerSystemTurn

\* With the SQLite-backed CallDatabase every promise handleSetup awaits is
\* settled when it is awaited, so the handler runs within one macrotask.
\* recent, known: what the store holds for the phone number.
HandleSetup(sid, recent, known) ==
  /\ conn = "new"
  /\ conn' = "open"
  /\ callSid' = sid
  /\ setupPc' = "done"
  /\ IF sid # NoSid /\ phoneNumber # NoPhone
       THEN /\ sessions' = SessionGetOrInit(
                             IF conv.has THEN RecoverBySid(sessions)
                             ELSE RecoverRecent(sessions, recent),
                             <<CallerSystemTurn(known)>>)
            /\ SetStore(IF conv.has THEN BwState
                        ELSE CreateConversation(BwState))
       ELSE /\ sessions' = IF sid # NoSid
                             THEN SessionGetOrInit(sessions, <<BaseSystemTurn>>)
                             ELSE sessions
            /\ SetStore(BwState)
  /\ relayState' = IF sid # NoSid
                     THEN SetNewCaller(relayState,
                                       ~(phoneNumber # NoPhone /\ known))
                     ELSE relayState
  /\ UNCHANGED <<phoneNumber, currentAbort, aborted, streams, queues, now,
                 nPrompts, gen, root, withUser, chunks, pacing, timers,
                 qDuring, stopSent, conv, endWritten, setupDeadline>>
  /\ UNCHANGED <<tvars, nameIn, savedName, unitvars>>

\* --- handleSetup against a store whose reads settle in a later task ---
HUnchanged ==
  UNCHANGED <<phoneNumber, currentAbort, aborted, streams, queues, now,
              nPrompts, gen, root, withUser, chunks, pacing, timers, qDuring,
              stopSent>>
  /\ UNCHANGED <<tvars, nameIn, savedName, unitvars>>

\* up to the first await: getConversationBySid, awaited as it is
SetupBegin(sid) ==
  /\ conn = "new"
  /\ conn' = "open"
  /\ callSid' = sid
  /\ IF sid # NoSid /\ phoneNumber # NoPhone
       THEN /\ setupPc' = "getConversationBySid"
            /\ UNCHANGED <<sessions, relayState>>
       ELSE /\ setupPc' = "done"
            /\ sessions' = IF sid # NoSid
                             THEN SessionGetOrInit(sessions, <<BaseSystemTurn>>)
                             ELSE sessions
            /\ relayState' = IF sid # NoSid
                               THEN SetNewCaller(relayState, TRUE)
                               ELSE relayState
  /\ HUnchanged
  /\ UNCHANGED <<svars, setupDeadline>>

\* getConversationBySid settled; next await: getRecentConversation, awaited
\* as it is, or getCallerQuickly, which races the lookup against a timer
SetupConvBySid ==
  /\ setupPc = "getConversationBySid"
  /\ sessions' = RecoverBySid(sessions)
  /\ setupPc' = IF conv.has THEN "getCallerQuickly"
                ELSE "getRecentConversation"
  /\ setupDeadline' = conv.has
  /\ HUnchanged
  /\ UNCHANGED <<conn, callSid, svars, relayState>>

SetupRecent(recent) ==
  /\ setupPc = "getRecentConversation"
  /\ sessions' = RecoverRecent(sessions, recent)
  /\ SetStore(CreateConversation(BwState))
  /\ setupPc' = "getCallerQuickly"
  /\ setupDeadline' = TRUE
  /\ HUnchanged
  /\ UNCHANGED <<conn, callSid, conv, endWritten, relayState>>

SetupFinish(known) ==
  /\ sessions' = SessionGetOrInit(sessions, <<CallerSystemTurn(known)>>)
  /\ setupPc' = "done"
  /\ setupDeadline' = FALSE
  /\ relayState' = SetNewCaller(relayState, ~known)
  /\ HUnchanged
  /\ UNCHANGED <<conn, callSid, svars>>

\* getCallerQuickly settled, by the lookup (named caller or not) or by its
\* 100 ms timer (null); a named caller's context is raced against 150 ms
SetupCaller(known) ==
  /\ setupPc = "getCallerQuickly"
  /\ IF known
       THEN /\ setupPc' = "getConversationContext"
            /\ setupDeadline' = TRUE
            /\ HUnchanged
            /\ UNCHANGED <<conn, callSid, sessions, svars, relayState>>
       ELSE SetupFinish(FALSE)

\* the context race settled, by the lookup or by its timer
SetupContext ==
  /\ setupPc = "getConversationContext"
  /\ SetupFinish(TRUE)

\* ---------------------------------------------------------- processPrompt
\* processPrompt(k) up to its first suspension, the await inside
\* getTextStream: registerStreamStart (result ignored), startAbort,
\* startTimeout, then getTextStream reads the history and requests the stream.
\* At its top the name extraction, which reads isNewCaller and
\* nameExtracted of the state object of the onMessage call it runs in: the
\* one built for prompt r.
ExtractsName(k, r) ==
  /\ relayState[r].isNewCaller
  /\ ~relayState[r].nameExtracted
  /\ k \in nameIn'
  /\ phoneNumber # NoPhone

NamedSystemTurn == <<"system", 3>>

\* history[0].content is rewritten if the first turn is a system turn
RewriteSystemTurn(s) ==
  IF s.has /\ s.msgs # <<>> /\ s.msgs[1][1] = "system"
    THEN Session([s.msgs EXCEPT ![1] = NamedSystemTurn])
    ELSE s

ProcessPromptStart(k, r) ==
  /\ savedName' = (savedName \/ ExtractsName(k, r))
  /\ relayState' = IF ExtractsName(k, r)
                     THEN [relayState EXCEPT ![r].nameExtracted = TRUE]
                     ELSE relayState
  /\ sessions' = IF ExtractsName(k, r) /\ callSid # NoSid
                   THEN RewriteSystemTurn(sessions)
                   ELSE sessions
  /\ streams' = IF callSid # NoSid THEN RegisterStreamStart(streams) ELSE streams
  /\ aborted' = Abort(aborted, currentAbort, "superseded")
  /\ currentAbort' = k
  /\ timers' = Append(timers, k)
  /\ withUser' = [withUser EXCEPT ![k] =
                    IF callSid # NoSid
                      THEN Append(SessionOrEmpty(sessions'), UserTurn(k))
                      ELSE <<>>]
  /\ gen' = [gen EXCEPT ![k] = "wait"]
  /\ root' = [root EXCEPT ![k] = r]

ClearTimersKept(r) == timers

\* the finally blocks of the nested processPrompt calls of one onMessage
\* call: the timers they armed are cleared
ClearTimers(r) ==
  LET Other(j) == root[j] # r IN SelectSeq(timers, Other)

\* the onMessage call of prompt r has returned: its locals are gone
Unwind(rt, r) == [j \in Prompts |-> IF rt[j] = r THEN 0 ELSE rt[j]]

\* what a stop request met: the generation whose abort controller is the
\* current one, and whether sendStream was consuming its stream
StopAt(g) ==
  [gen |-> g, streaming |-> g \in Prompts /\ gen[g] = "streaming"]

\* ----------------------------------------------------------- handlePrompt
HandlePrompt(text, maxP) ==
  LET k == nPrompts + 1 IN
  /\ conn = "open"
  /\ nPrompts < maxP
  /\ nPrompts' = k
  /\ nameIn' = IF ExtractName(text) # "none" THEN nameIn \cup {k} ELSE nameIn
  /\ IF callSid # NoSid /\ IsStreamActive(streams)
       THEN /\ IF IsStopCommand(text)
                 THEN /\ stopSent' = stopSent + 1
                      /\ ttsStoppedByUser' =
                           [ttsStoppedByUser EXCEPT ![k] = TRUE]
                      /\ stopDuring' =
                           [stopDuring EXCEPT ![k] = StopAt(currentAbort)]
                      /\ gen' = [gen EXCEPT ![k] = "dropped"]
                      /\ UNCHANGED <<queues, qDuring>>
                 ELSE /\ queues' = Enqueue(queues, k, "prompt", text, now)
                      /\ UNCHANGED <<ttsStoppedByUser, stopDuring>>
                      /\ IF EnqueueAccepts(queues, "prompt", text, now)
                           THEN /\ gen' = [gen EXCEPT ![k] = "queued"]
                                /\ qDuring' = [qDuring EXCEPT ![k] = currentAbort]
                           ELSE /\ gen' = [gen EXCEPT ![k] = "dropped"]
                                /\ UNCHANGED qDuring
                      /\ UNCHANGED stopSent
            /\ UNCHANGED <<currentAbort, aborted, streams, withUser, root,
                           timers, sessions, relayState, savedName>>
       ELSE /\ ProcessPromptStart(k, k)
            /\ UNCHANGED <<queues, qDuring, stopSent, ttsStoppedByUser,
                           stopDuring>>
  /\ UNCHANGED <<conn, callSid, phoneNumber, now, chunks, pacing, svars,
                 uvars>>
  /\ UNCHANGED <<textSent, unitvars>>

\* the 500 ms delay of processQueuedMessages is over: processPrompt(content)
PacingDone ==
  /\ pacing # <<>>
  /\ ProcessPromptStart(Head(pacing), root[Head(pacing)])
  /\ pacing' = Tail(pacing)
  /\ UNCHANGED <<conn, callSid, phoneNumber, queues, now, nPrompts, chunks,
                 qDuring, stopSent, svars, uvars>>
  /\ UNCHANGED <<tvars, nameIn, unitvars>>

\* streamAnswerWithMessages resolved: getTextStream stores withUser and hands
\* it to the batch writer, then sendStream starts consuming
\* activityTimer = setInterval(updateActivity, 5000) if there is a call id;
\* the intervals are followed only where heartbeats has the generations
SetInterval(hb, k, armed) ==
  IF k \in DOMAIN hb /\ armed THEN [hb EXCEPT ![k] = TRUE] ELSE hb

ClearIntervalAlways(hb, k, ended) ==
  IF k \in DOMAIN hb THEN [hb EXCEPT ![k] = FALSE] ELSE hb

\* if (activityTimer) clearInterval(activityTimer), which follows the
\* await of sendStream
ClearInterval(hb, k, ended) ==
  IF k \in DOMAIN hb /\ ended = "ok" THEN [hb EXCEPT ![k] = FALSE] ELSE hb

StreamReady(k) ==
  /\ gen[k] = "wait"
  /\ gen' = [gen EXCEPT ![k] = "streaming"]
  /\ sessions' = IF callSid # NoSid THEN Session(withUser[k]) ELSE sessions
  /\ SetStore(IF callSid # NoSid /\ phoneNumber # NoPhone
                THEN BwEnqueue(BwState, withUser[k], FALSE)
                ELSE BwState)
  /\ withUser' = [withUser EXCEPT ![k] = <<>>]
  /\ heartbeats' = SetInterval(heartbeats, k, callSid # NoSid)
  /\ UNCHANGED <<conn, callSid, phoneNumber, currentAbort, aborted, streams,
                 queues, now, nPrompts, root, chunks, pacing, timers, qDuring,
                 stopSent, conv, endWritten, uvars>>
  /\ UNCHANGED <<tvars, nvars, zvars>>

\* sendStream's loop takes one chunk
StreamChunk(k) ==
  /\ gen[k] = "streaming"
  /\ chunks[k] < MaxChunks
  /\ chunks' = [chunks EXCEPT ![k] = @ + 1]
  /\ UNCHANGED <<conn, callSid, phoneNumber, currentAbort, aborted, sessions,
                 streams, queues, now, nPrompts, gen, root, withUser, pacing,
                 timers, qDuring, stopSent, svars, uvars>>
  /\ textSent' = IF ttsStoppedByUser[root[k]]
                   THEN textSent
                   ELSE [textSent EXCEPT ![k] = @ + 1]
  /\ UNCHANGED <<ttsStoppedByUser, stopDuring, nvars, unitvars>>

CatchStreamEndSkipped(s) == s

\* the catch block of processPrompt
CatchStreamEnd(s) == IF callSid # NoSid THEN RegisterStreamEnd(s) ELSE s

\* obtaining or consuming the stream threw: the catch and the finally of
\* processPrompt(k), then those of the calls it is nested in
GenError(k) ==
  /\ InFlight(k)
  /\ gen' = [gen EXCEPT ![k] = "err"]
  /\ streams' = CatchStreamEnd(streams)
  /\ timers' = ClearTimers(root[k])
  /\ root' = Unwind(root, root[k])
  /\ withUser' = [withUser EXCEPT ![k] = <<>>]
  /\ chunks' = [chunks EXCEPT ![k] = 0]
  /\ aborted' = [aborted EXCEPT ![k] = "none"]
  /\ UNCHANGED <<conn, callSid, phoneNumber, currentAbort, sessions, queues,
                 now, nPrompts, pacing, qDuring, stopSent, svars, uvars>>
  /\ textSent' = [textSent EXCEPT ![k] = 0]
  /\ heartbeats' = ClearInterval(heartbeats, k, "err")
  /\ UNCHANGED <<ttsStoppedByUser, stopDuring, nvars, zvars>>

\* sendStream returned: the assistant turn is stored and handed to the
\* batch writer, the stream is registered as ended and processQueuedMessages
\* dequeues at most one entry, which then waits out the pacing delay
GenComplete(k) ==
  /\ gen[k] = "streaming"
  /\ LET withAssistant == Append(SessionOrEmpty(sessions), AssistantTurn(k))
         saved == callSid # NoSid /\ chunks[k] > 0
     IN  /\ sessions' = IF saved THEN Session(withAssistant) ELSE sessions
         /\ SetStore(IF saved /\ phoneNumber # NoPhone
                       THEN BwEnqueue(BwState, withAssistant, FALSE)
                       ELSE BwState)
  /\ streams' = IF callSid # NoSid THEN RegisterStreamEnd(streams) ELSE streams
  /\ chunks' = [chunks EXCEPT ![k] = 0]
  /\ aborted' = [aborted EXCEPT ![k] = "none"]
  /\ IF callSid # NoSid /\ HasPending(queues)
       THEN LET next == GetNext(queues) IN
            /\ queues' = MarkProcessed(queues, next.id)
            /\ pacing' = Append(pacing, next.id)
            /\ gen' = [gen EXCEPT ![k] = "ok", ![next.id] = "pacing"]
            /\ root' = [root EXCEPT ![next.id] = root[k]]
            /\ UNCHANGED timers
       ELSE /\ gen' = [gen EXCEPT ![k] = "ok"]
            /\ timers' = ClearTimers(root[k])
            /\ root' = Unwind(root, root[k])
            /\ UNCHANGED <<queues, pacing>>
  /\ UNCHANGED <<conn, callSid, phoneNumber, currentAbort, now, nPrompts,
                 withUser, qDuring, stopSent, conv, endWritten, uvars>>
  /\ textSent' = [textSent EXCEPT ![k] = 0]
  /\ heartbeats' = ClearInterval(heartbeats, k, "ok")
  /\ UNCHANGED <<ttsStoppedByUser, stopDuring, nvars, zvars>>

\* the callback of the oldest armed deadline timer: abortRef.get()?.abort
TimerFire ==
  /\ timers # <<>>
  /\ timers' = Tail(timers)
  /\ aborted' = Abort(aborted, currentAbort, "timeout")
  /\ UNCHANGED <<conn, callSid, phoneNumber, currentAbort, sessions, streams,
                 queues, now, nPrompts, gen, root, withUser, chunks, pacing,
                 qDuring, stopSent, svars, uvars>>
  /\ UNCHANGED <<tvars, nvars, unitvars>>

\* handleInterrupt: state.pendingInterrupt lives on the per-message state
\* object, so the active branch changes nothing that outlives the call
HandleInterrupt ==
  /\ conn = "open"
  /\ aborted' = IF callSid # NoSid /\ IsStreamActive(streams)
                  THEN aborted
                  ELSE Abort(aborted, currentAbort, "interrupt")
  /\ UNCHANGED <<conn, callSid, phoneNumber, currentAbort, sessions, streams,
                 queues, now, nPrompts, gen, root, withUser, chunks, pacing,
                 timers, qDuring, stopSent, svars, uvars>>
  /\ UNCHANGED <<tvars, nvars, unitvars>>

OnError ==
  /\ conn = "open"
  /\ aborted' = Abort(aborted, currentAbort, "ws-error")
  /\ UNCHANGED <<conn, callSid, phoneNumber, currentAbort, sessions, streams,
                 queues, now, nPrompts, gen, root, withUser, chunks, pacing,
                 timers, qDuring, stopSent, svars, uvars>>
  /\ UNCHANGED <<tvars, nvars, unitvars>>

OnClose ==
  /\ conn \in {"new", "open"}
  /\ conn' = "closed"
  /\ aborted' = Abort(aborted, currentAbort, "ws-closed")
  /\ currentAbort' = 0
  /\ queues' = IF callSid # NoSid THEN QueueClear(queues) ELSE queues
  /\ streams' = IF callSid # NoSid THEN ClearCall(streams) ELSE streams
  /\ SetStore(IF callSid # NoSid /\ phoneNumber # NoPhone
                THEN BwEnqueue(BwState, SessionOrEmpty(sessions), TRUE)
                ELSE BwState)
  /\ sessions' = IF callSid # NoSid THEN NoSession ELSE sessions
  /\ gen' = [k \in Prompts |-> IF gen[k] = "queued" THEN "dropped" ELSE gen[k]]
  /\ UNCHANGED <<callSid, phoneNumber, now, nPrompts, root, withUser, chunks,
                 pacing, timers, qDuring, stopSent, conv, endWritten, uvars>>
  /\ UNCHANGED <<tvars, nvars, unitvars>>

Tick ==
  /\ now < MaxTime
  /\ now' = now + deduplicationWindow
  /\ UNCHANGED <<conn, callSid, phoneNumber, currentAbort, aborted, sessions,
                 streams, queues, nPrompts, gen, root, withUser, chunks,
                 pacing, timers, qDuring, stopSent, svars, uvars>>
  /\ UNCHANGED <<tvars, nvars, unitvars>>

\* ------------------------------------------------------------------ Init
NoTimer == [armed |-> FALSE, at |-> 0]

NoUpdate == [messages |-> 0, ended |-> FALSE]

BwUnitInit ==
  /\ bq = <<>>
  /\ bqTimer = NoTimer
  /\ bqWrites = <<>>
  /\ bqStore = [c \in BwCalls |-> NoUpdate]
  /\ bqLast = [c \in BwCalls |-> NoUpdate]
  /\ bqN = 0

\* no BatchWriter of its own is driven
BwUnitIdle ==
  /\ bq = <<>>
  /\ bqTimer = NoTimer
  /\ bqWrites = <<>>
  /\ bqStore = <<>>
  /\ bqLast = <<>>
  /\ bqN = 0

\* no other unit is driven
XIdle ==
  /\ recentConv = <<>>
  /\ sc = <<>>
  /\ sessionStore = <<>>
  /\ quick = <<>>
  /\ pongs = 0
  /\ heartbeats = <<>>

\* neither a MessageQueue nor a BatchWriter of its own is driven
UnitInit ==
  /\ mq = <<>>
  /\ mqN = 0
  /\ BwUnitIdle
  /\ XIdle

InitWith(phones) ==
  /\ conn = "new"
  /\ callSid = NoSid
  /\ phoneNumber \in phones
  /\ currentAbort = 0
  /\ aborted = [k \in Prompts |-> "none"]
  /\ sessions = NoSession
  /\ streams = NoStream
  /\ queues = NoQueue
  /\ now = 0
  /\ nPrompts = 0
  /\ gen = [k \in Prompts |-> "none"]
  /\ root = [k \in Prompts |-> 0]
  /\ withUser = [k \in Prompts |-> <<>>]
  /\ chunks = [k \in Prompts |-> 0]
  /\ pacing = <<>>
  /\ timers = <<>>
  /\ qDuring = [k \in Prompts |-> 0]
  /\ stopSent = 0
  /\ bwQueue = NoItem
  /\ bwTimer = FALSE
  /\ immediates = <<>>
  /\ conv = NoRow
  /\ endWritten = FALSE
  /\ setupPc = "none"
  /\ setupDeadline = FALSE
  /\ ttsStoppedByUser = [k \in Prompts |-> FALSE]
  /\ stopDuring = [k \in Prompts |-> [gen |-> 0, streaming |-> FALSE]]
  /\ textSent = [k \in Prompts |-> 0]
  /\ relayState = [m \in 0..MaxIds |-> NoFlags]
  /\ nameIn = {}
  /\ savedName = FALSE

\* a connection opened without ?phone=: no store traffic
Init == InitWith({NoPhone}) /\ UnitInit

\* a connection opened with ?phone=
InitPhone == InitWith({Phone}) /\ UnitInit

\* what runs once the setup envelope is being handled
Handlers(maxP) ==
  \/ \E text \in PromptTexts : HandlePrompt(text, maxP)
  \/ PacingDone
  \/ \E k \in Prompts : StreamReady(k)
  \/ \E k \in Prompts : StreamChunk(k)
  \/ \E k \in Prompts : GenError(k)
  \/ \E k \in Prompts : GenComplete(k)
  \/ TimerFire
  \/ HandleInterrupt
  \/ OnError
  \/ OnClose
  \/ Tick

SetupAtOnce == \E recent \in BOOLEAN, known \in BOOLEAN :
                 HandleSetup(CallId, recent, known)

Next == SetupAtOnce \/ Handlers(MaxPrompts)

NextRace == SetupAtOnce \/ Handlers(MaxPromptsRace)

NextStore ==
  \/ SetupAtOnce
  \/ Handlers(MaxPromptsStore)
  \/ BatchTimerFire
  \/ \E fails \in WriteSucceeds : ImmediateRun(fails)

NextSlow ==
  \/ SetupBegin(CallId)
  \/ SetupConvBySid
  \/ \E recent \in BOOLEAN : SetupRecent(recent)
  \/ \E known \in BOOLEAN : SetupCaller(known)
  \/ SetupContext
  \/ Handlers(MaxPromptsSlow)
  \/ BatchTimerFire
  \/ \E fails \in WriteSucceeds : ImmediateRun(fails)

\* a call without a phone number
Spec == Init /\ [][Next]_vars

\* the same with one more prompt
SpecRace == Init /\ [][NextRace]_vars

\* a call with a phone number, with the batch writer and the store
SpecStore == InitPhone /\ [][NextStore]_vars

\* texts that introduce a name or do not
NameTexts == {"my name is misty", "who is pikachu"}

NextName ==
  \/ SetupAtOnce
  \/ \E text \in NameTexts : HandlePrompt(text, MaxPromptsName)
  \/ Handlers(MaxPromptsName)

\* a call with a phone number whose prompts may introduce the caller
SpecName == InitPhone /\ [][NextName]_vars

\* a new caller's prompts come in quick succession, no interrupt and no
\* socket error arrives and no deadline fires
NextFail ==
  \/ HandleSetup(CallId, FALSE, FALSE)
  \/ HandlePrompt("pikachu", MaxPromptsFail)
  \/ PacingDone
  \/ \E k \in Prompts : StreamReady(k)
  \/ \E k \in Prompts : StreamChunk(k)
  \/ \E k \in Prompts : GenError(k)
  \/ \E k \in Prompts : GenComplete(k)
  \/ OnClose
  \/ BatchTimerFire
  \/ \E fails \in BOOLEAN : ImmediateRun(fails)

\* a call with a phone number against a store whose statements may throw
SpecFail == InitPhone /\ [][NextFail]_vars

InitHeart ==
  /\ InitWith({NoPhone})
  /\ mq = <<>>
  /\ mqN = 0
  /\ BwUnitIdle
  /\ recentConv = <<>>
  /\ sc = <<>>
  /\ sessionStore = <<>>
  /\ quick = <<>>
  /\ pongs = 0
  /\ heartbeats = [k \in Prompts |-> FALSE]

NextHeart == SetupAtOnce \/ Handlers(MaxPromptsHeart)

\* a call whose activity intervals are followed
SpecHeart == InitHeart /\ [][NextHeart]_vars

\* payloads that are no setup, prompt with text or interrupt envelope
Envelopes == {"ping", "dtmf", "not json", "binary", "prompt without text"}

\* safeParseMessage: non-string data and text that is no JSON give null
SafeParse(payload) ==
  IF payload \in {"binary", "not json"} THEN "null" ELSE payload

PongsAfterAny(payload, n) == n + 1

\* routeRelayMessage: only the ping case sends a pong
PongsAfter(payload, n) == IF SafeParse(payload) = "ping" THEN n + 1 ELSE n

\* onMessage for such a payload: dropped by safeParseMessage, answered
\* with a pong, ignored by the default case, or returned from handlePrompt
\* at its test for text
HandleEnvelope(payload) ==
  /\ conn # "closed"
  /\ pongs < MaxPings
  /\ pongs' = PongsAfter(payload, pongs)
  /\ UNCHANGED <<hvars, svars, uvars, tvars, nvars, mq, mqN, bvars,
                 recentConv, sc, sessionStore, quick, heartbeats>>

NextPing ==
  \/ SetupAtOnce
  \/ Handlers(MaxPromptsPing)
  \/ \E payload \in Envelopes : HandleEnvelope(payload)

\* a call that also receives pings, unknown and malformed envelopes
SpecPing == Init /\ [][NextPing]_vars

\* a call with a phone number against a store whose reads settle late or never
SpecSlowStore == InitPhone /\ [][NextSlow]_vars

\* ------------------------------------------- the MessageQueue on its own
MqTypes == {"prompt", "interrupt"}

\* Contents are numbered: a content nobody has sent yet, or the content of
\* the oldest or the newest entry of some call's queue.
MqContents ==
  {mqN + 1} \cup
  UNION {{mq[c].items[1].content, mq[c].items[Len(mq[c].items)].content} :
         c \in {d \in MqCalls : mq[d].items # <<>>}}

\* a content nobody has sent yet arrives as a prompt, a repeated one as
\* either kind
MqTypesOf(content) == IF content = mqN + 1 THEN {"prompt"} ELSE MqTypes

\* getNext: null (id 0) without a queue or without an unprocessed entry
GetNextOrNull(q) ==
  IF ~q.has \/ q.items = <<>> \/ ~HasPending(q) THEN 0 ELSE GetNext(q).id

\* getPendingCount
GetPendingCount(q) == IF ~q.has THEN 0 ELSE Len(SelectSeq(q.items, Unprocessed))

\* markProcessed returns whether it found the id
MarkProcessedFinds(q, id) ==
  q.has /\ \E i \in 1..Len(q.items) : q.items[i].id = id

\* entries a queue has lost to the size limit after n enqueues
MqEvicted(n) == IF n > maxQueueSize THEN n - maxQueueSize ELSE 0

\* the queue after MqPrefill distinct prompts were enqueued at time 0
MqFilled ==
  [has |-> TRUE,
   items |-> [i \in 1..(MqPrefill - MqEvicted(MqPrefill)) |->
                [id |-> i + MqEvicted(MqPrefill), type |-> "prompt",
                 content |-> i + MqEvicted(MqPrefill), timestamp |-> 0,
                 processed |-> FALSE]]]

\* The MessageQueue after MqPrefill entries were created: the first call's
\* queue still holds them all, or every one has been processed since.
InitQueue ==
  /\ InitWith({NoPhone})
  /\ mq \in {[c \in MqCalls |-> NoQueue],
             [c \in MqCalls |-> IF c = "CA1" THEN MqFilled ELSE NoQueue]}
  /\ mqN = MqPrefill
  /\ BwUnitIdle
  /\ XIdle

\* enqueue: an entry is created when the message is accepted (the value
\* enqueue returns, EnqueueAccepts)
MqEnqueue(c, type, content) ==
  /\ mqN < MqPrefill + MaxEnqueues
  /\ mq' = [mq EXCEPT ![c] = Enqueue(mq[c], mqN + 1, type, content, now)]
  /\ mqN' = IF EnqueueAccepts(mq[c], type, content, now) THEN mqN + 1 ELSE mqN
  /\ UNCHANGED <<hvars, svars, uvars, tvars, nvars, xvars, bvars>>

\* markProcessed, of the entry getNext returns or of an id no entry has
MqMarkProcessed(c, id) ==
  /\ mq' = [mq EXCEPT ![c] = MarkProcessed(mq[c], id)]
  /\ UNCHANGED <<hvars, svars, uvars, tvars, nvars, xvars, mqN, bvars>>

MqClear(c) ==
  /\ mq' = [mq EXCEPT ![c] = QueueClear(mq[c])]
  /\ UNCHANGED <<hvars, svars, uvars, tvars, nvars, xvars, mqN, bvars>>

NextQueue ==
  \/ \E c \in MqCalls, content \in MqContents :
       \E type \in MqTypesOf(content) : MqEnqueue(c, type, content)
  \/ \E c \in MqCalls :
       \E id \in {0, GetNextOrNull(mq[c])} : MqMarkProcessed(c, id)
  \/ \E c \in MqCalls : MqClear(c)
  \/ Tick

\* the MessageQueue driven by arbitrary callers
SpecQueue == InitQueue /\ [][NextQueue]_vars

\* -------------------------------------------- the BatchWriter on its own
BatchItem(c, messages, ended) ==
  [callSid |-> c, messages |-> messages, ended |-> ended]

BatchHas(q, c) == \E i \in 1..Len(q) : q[i].callSid = c

BatchSetAppends(q, item) == Append(q, item)

\* Map.set: the value of an existing key is replaced in place, a new key
\* is added last
BatchSet(q, item) ==
  IF BatchHas(q, item.callSid)
    THEN [i \in 1..Len(q) |->
            IF q[i].callSid = item.callSid THEN item ELSE q[i]]
    ELSE Append(q, item)

BatchState == [q |-> bq, t |-> bqTimer, w |-> bqWrites]

BatchFlushKeepsTimer(st) ==
  IF st.q = <<>> THEN st
  ELSE [q |-> <<>>, t |-> st.t, w |-> Append(st.w, st.q)]

\* flush: the timer is cleared; a non-empty queue is copied, cleared and
\* the copy handed to setImmediate
BatchFlush(st) ==
  IF st.q = <<>> THEN [st EXCEPT !.t = NoTimer]
  ELSE [q |-> <<>>, t |-> NoTimer, w |-> Append(st.w, st.q)]

BatchArmAlways(st, t) == [st EXCEPT !.t = [armed |-> TRUE, at |-> t]]

\* scheduleFlush, when no timer is armed
BatchArm(st, t) ==
  IF st.t.armed THEN st ELSE [st EXCEPT !.t = [armed |-> TRUE, at |-> t]]

BatchFlushNowSizeOnly(q, ended) == Len(q) >= maxBatchSize

BatchFlushNowLate(q, ended) == Len(q) > maxBatchSize \/ ended

\* flush immediately if the queue is full or the conversation ended
BatchFlushNow(q, ended) == Len(q) >= maxBatchSize \/ ended

BatchEnqueue(st, c, messages, ended, t) ==
  LET st1 == BatchArm([st EXCEPT !.q = BatchSet(@, BatchItem(c, messages,
                                                             ended))], t)
  IN  IF BatchFlushNow(st1.q, ended) THEN BatchFlush(st1) ELSE st1

SetBatch(st) ==
  /\ bq' = st.q
  /\ bqTimer' = st.t
  /\ bqWrites' = st.w

\* Call ids are interchangeable: a call with a pending item, or the first
\* one without.  Transcripts are numbered in the order they are handed in.
BqCallers ==
  {c \in BwCalls : BatchHas(bq, c)} \cup
  {c \in BwCalls : /\ ~BatchHas(bq, c)
                   /\ \A d \in BwCalls : d < c => BatchHas(bq, d)}

BqEnqueue(c, messages, ended) ==
  /\ bqN < MaxBwEnqueues
  /\ bqN' = bqN + 1
  /\ SetBatch(BatchEnqueue(BatchState, c, messages, ended, now))
  /\ bqLast' = [bqLast EXCEPT ![c] = [messages |-> messages, ended |-> ended]]
  /\ UNCHANGED <<hvars, svars, uvars, tvars, nvars, xvars, mq, mqN, bqStore>>

\* the flush timer fires after batchInterval
BqTimerFire ==
  /\ bqTimer.armed
  /\ SetBatch(BatchFlush(BatchState))
  /\ UNCHANGED <<hvars, svars, uvars, tvars, nvars, xvars, mq, mqN, bqStore, bqLast, bqN>>

\* forceFlush, on shutdown
BqForceFlush ==
  /\ SetBatch(BatchFlush(BatchState))
  /\ UNCHANGED <<hvars, svars, uvars, tvars, nvars, xvars, mq, mqN, bqStore, bqLast, bqN>>

\* the store after updateConversationMessages was called for each item
StoreBatch(store, batch) ==
  [c \in BwCalls |->
     IF BatchHas(batch, c)
       THEN LET i == CHOOSE j \in 1..Len(batch) :
                       /\ batch[j].callSid = c
                       /\ \A k \in (j + 1)..Len(batch) : batch[k].callSid # c
            IN  [messages |-> batch[i].messages, ended |-> batch[i].ended]
       ELSE store[c]]

\* the oldest setImmediate callback of flush runs
BqImmediateRun ==
  /\ bqWrites # <<>>
  /\ bqWrites' = Tail(bqWrites)
  /\ bqStore' = StoreBatch(bqStore, Head(bqWrites))
  /\ UNCHANGED <<hvars, svars, uvars, tvars, nvars, xvars, mq, mqN, bq, bqTimer, bqLast, bqN>>

\* the queue while BwPrefill calls have their first transcript pending
BqFilled == [i \in 1..BwPrefill |-> BatchItem(i, i, FALSE)]

\* The BatchWriter with nothing pending, or with the items of BwPrefill
\* calls pending, enqueued at time 0.
InitBatch ==
  /\ InitWith({NoPhone})
  /\ mq = <<>>
  /\ mqN = 0
  /\ XIdle
  /\ \/ BwUnitInit
     \/ /\ bq = BqFilled
        /\ bqTimer = [armed |-> TRUE, at |-> 0]
        /\ bqWrites = <<>>
        /\ bqStore = [c \in BwCalls |-> NoUpdate]
        /\ bqLast = [c \in BwCalls |->
                       IF c <= BwPrefill
                         THEN [messages |-> c, ended |-> FALSE]
                         ELSE NoUpdate]
        /\ bqN = 0

NextBatch ==
  \/ \E c \in BqCallers, ended \in BOOLEAN :
       BqEnqueue(c, BwPrefill + bqN + 1, ended)
  \/ BqTimerFire
  \/ BqForceFlush
  \/ BqImmediateRun
  \/ Tick

\* the BatchWriter driven by arbitrary callers; timers that are armed fire
\* and setImmediate callbacks run
SpecBatch ==
  /\ InitBatch
  /\ [][NextBatch]_vars
  /\ WF_vars(BqTimerFire)
  /\ WF_vars(BqImmediateRun)

\* ------------------------------------ the StreamCoordinator on its own
NoEntry == [has |-> FALSE, isActive |-> FALSE, startedAt |-> 0,
            lastActivity |-> 0]

ScStaleSinceStart(e, t) == e.isActive /\ t - e.startedAt > streamTimeout

\* stream.isActive && now - stream.lastActivity > this.streamTimeout
ScStale(e, t) == e.isActive /\ t - e.lastActivity > streamTimeout

\* the entry after isStreamActive: a stale one is marked inactive
ScCheck(e, t) ==
  IF e.has /\ ScStale(e, t) THEN [e EXCEPT !.isActive = FALSE] ELSE e

\* what isStreamActive returns
ScActive(e, t) == e.has /\ ScCheck(e, t).isActive

ScRegisterStartAlways(e, t) ==
  [has |-> TRUE, isActive |-> TRUE, startedAt |-> t, lastActivity |-> t]

\* the entry after registerStreamStart, which returns ~ScActive(e, t)
ScRegisterStart(e, t) ==
  IF ScActive(e, t) THEN ScCheck(e, t)
  ELSE [has |-> TRUE, isActive |-> TRUE, startedAt |-> t, lastActivity |-> t]

\* the entry after op, called at time t
ScApply(op, e, t) ==
  CASE op = "isStreamActive" -> ScCheck(e, t)
    [] op = "registerStreamStart" -> ScRegisterStart(e, t)
    [] op = "registerStreamEnd" ->
         IF e.has THEN [e EXCEPT !.isActive = FALSE] ELSE e
    [] op = "updateActivity" ->
         IF e.has /\ e.isActive THEN [e EXCEPT !.lastActivity = t] ELSE e
    [] OTHER -> NoEntry

ScOps == {"isStreamActive", "registerStreamStart", "registerStreamEnd",
          "updateActivity", "clearCall"}

CUnchanged ==
  UNCHANGED <<conn, callSid, phoneNumber, currentAbort, aborted, sessions,
              streams, queues, nPrompts, gen, root, withUser, chunks, pacing,
              timers, qDuring, stopSent, svars, uvars, tvars, nvars, mq,
              mqN, bvars, recentConv, sessionStore, quick, yvars>>

\* a caller calls op for call c
ScCall(c, op) ==
  /\ sc' = [sc EXCEPT ![c] = ScApply(op, sc[c], now)]
  /\ now' = now
  /\ CUnchanged

\* half the inactivity window passes
ScWait ==
  /\ now < MaxCoordTime
  /\ now' = now + streamTimeout \div 2
  /\ sc' = sc
  /\ CUnchanged

ScSweptByAge(e, t) ==
  IF e.has /\ t - e.lastActivity > staleThreshold THEN NoEntry ELSE e

\* !stream.isActive && now - stream.lastActivity > staleThreshold: deleted
ScSwept(e, t) ==
  IF e.has /\ ~e.isActive /\ t - e.lastActivity > staleThreshold
    THEN NoEntry ELSE e

\* the periodic cleanup drops inactive entries idle for over a minute
ScCleanup ==
  /\ sc' = [c \in MqCalls |-> ScSwept(sc[c], now)]
  /\ now' = now
  /\ CUnchanged

InitCoord ==
  /\ InitWith({NoPhone})
  /\ mq = <<>>
  /\ mqN = 0
  /\ BwUnitIdle
  /\ recentConv = <<>>
  /\ sc = [c \in MqCalls |-> NoEntry]
  /\ sessionStore = <<>>
  /\ quick = <<>>
  /\ pongs = 0
  /\ heartbeats = <<>>

NextCoord ==
  \/ \E c \in MqCalls, op \in ScOps : ScCall(c, op)
  \/ ScWait
  \/ ScCleanup

SpecCoord == InitCoord /\ [][NextCoord]_vars

\* ------------------------------------------- two calls side by side
\* The connection of call CA1 acts on the singletons it shares with the
\* connection of call CA2, which is quiet in whatever state it has reached.
CallsUnchanged ==
  UNCHANGED <<hvars, svars, uvars, tvars, nvars, mqN, bvars, recentConv,
              quick, yvars>>

OnCloseOfAll(m, c, absent) == [d \in DOMAIN m |-> absent]

\* what onClose's clear(callSid), clearCall(callSid) do to a map keyed by
\* call id: the entry of c becomes the absent one
OnCloseOf(m, c, absent) == [m EXCEPT ![c] = absent]

\* the connection of call c closes
CallClose(c) ==
  /\ mq' = OnCloseOf(mq, c, QueueClear(mq[c]))
  /\ sc' = OnCloseOf(sc, c, NoEntry)
  /\ sessionStore' = OnCloseOf(sessionStore, c, NoSession)
  /\ CallsUnchanged

\* handleSetup of call c seeds its session
CallSetup(c) ==
  /\ sessionStore' =
       [sessionStore EXCEPT
          ![c] = SessionGetOrInit(sessionStore[c], <<NewCallerSystemTurn>>)]
  /\ UNCHANGED <<mq, sc>>
  /\ CallsUnchanged

\* a generation of call c stores the transcript with the user turn; the
\* transcript is kept to the system turn and one user turn here
CallTurn(c) ==
  /\ sessionStore[c].has
  /\ Len(sessionStore[c].msgs) < 2
  /\ sessionStore' =
       [sessionStore EXCEPT
          ![c] = Session(Append(sessionStore[c].msgs, UserTurn(1)))]
  /\ UNCHANGED <<mq, sc>>
  /\ CallsUnchanged

\* a generation of call c errors or is aborted by its deadline: the catch
\* block registers the end of the stream
CallGenerationFails(c) ==
  /\ sc' = [sc EXCEPT ![c] = ScApply("registerStreamEnd", sc[c], now)]
  /\ UNCHANGED <<mq, sessionStore>>
  /\ CallsUnchanged

\* the inactivity window and a half passes, once
CallsWait ==
  /\ now < streamTimeout
  /\ now' = now + streamTimeout + streamTimeout \div 2
  /\ sc' = sc
  /\ CUnchanged

\* the states call CA2 is left in: not set up yet, or with a full queue,
\* a stream started at 0 and not ended, and a session with a user turn
QuietCall ==
  {[mq |-> NoQueue, sc |-> NoEntry, session |-> NoSession],
   [mq |-> MqFilled, sc |-> ScApply("registerStreamStart", NoEntry, 0),
    session |-> Session(<<NewCallerSystemTurn, UserTurn(1)>>)]}

InitCalls ==
  /\ InitWith({NoPhone})
  /\ mqN = MqPrefill
  /\ BwUnitIdle
  /\ recentConv = <<>>
  /\ quick = <<>>
  /\ pongs = 0
  /\ heartbeats = <<>>
  /\ \E y \in QuietCall :
       /\ mq = [c \in MqCalls |-> IF c = "CA1" THEN MqFilled ELSE y.mq]
       /\ sc = [c \in MqCalls |-> IF c = "CA1" THEN NoEntry ELSE y.sc]
       /\ sessionStore =
            [c \in MqCalls |-> IF c = "CA1" THEN NoSession ELSE y.session]

NextCalls ==
  \/ \E content \in MqContents :
       \E type \in MqTypesOf(content) : MqEnqueue("CA1", type, content)
  \/ \E id \in {0, GetNextOrNull(mq["CA1"])} : MqMarkProcessed("CA1", id)
  \/ MqClear("CA1")
  \/ \E op \in ScOps : ScCall("CA1", op)
  \/ CallClose("CA1")
  \/ CallSetup("CA1")
  \/ CallTurn("CA1")
  \/ CallGenerationFails("CA1")
  \/ CallsWait

SpecCalls == InitCalls /\ [][NextCalls]_vars

\* ------------------------------------------ getCallerQuickly on its own
QuickPhones == {Phone, "+15550101"}

QuickUnchanged ==
  UNCHANGED <<hvars, svars, uvars, tvars, nvars, mq, mqN, bvars, recentConv,
              sc, sessionStore, yvars>>

GetCallerByPhoneRejects(table, phone, fails) ==
  IF fails THEN "rejected" ELSE table[phone]

\* the promise of getCallerByPhone is settled inside its executor: with
\* the row's name, with null for no row, with null when the statement throws
GetCallerByPhone(table, phone, fails) ==
  IF fails THEN "null" ELSE table[phone]

RaceSettleLast(result, value) == value

\* Promise.race settles with the first of its promises to settle
RaceSettle(result, value) == IF result = "unsettled" THEN value ELSE result

\* a reaction to a settled promise (a microtask) is pending: timers and
\* setImmediate callbacks do not run
Reacting == \E i \in 1..Len(quick.calls) : ~quick.calls[i].lookupDone

\* getCallerQuickly(phone, timeoutMs): the statement runs, the timer is armed
QuickCall(phone, fails) ==
  /\ Len(quick.calls) < MaxQuickCalls
  /\ quick' = [quick EXCEPT !.calls =
                 Append(@, [phone |-> phone,
                            lookup |-> GetCallerByPhone(quick.table, phone,
                                                         fails),
                            lookupDone |-> FALSE,
                            timer |-> "armed",
                            result |-> "unsettled"])]
  /\ QuickUnchanged

\* the race reacts to the lookup's promise
QuickLookupSettles(i) ==
  /\ ~quick.calls[i].lookupDone
  /\ quick' = [quick EXCEPT
                 !.calls[i].lookupDone = TRUE,
                 !.calls[i].result = RaceSettle(@, quick.calls[i].lookup)]
  /\ QuickUnchanged

\* the timer of the race fires
QuickTimerFires(i) ==
  /\ ~Reacting
  /\ quick.calls[i].timer = "armed"
  /\ quick' = [quick EXCEPT
                 !.calls[i].timer = "fired",
                 !.calls[i].result = RaceSettle(@, "null")]
  /\ QuickUnchanged

\* saveCallerName's setImmediate callback upserts the row
QuickSave(phone) ==
  /\ ~Reacting
  /\ quick' = [quick EXCEPT !.table[phone] = "Ash"]
  /\ QuickUnchanged

InitQuick ==
  /\ InitWith({NoPhone})
  /\ mq = <<>>
  /\ mqN = 0
  /\ BwUnitIdle
  /\ recentConv = <<>>
  /\ sc = <<>>
  /\ sessionStore = <<>>
  /\ quick = [table |-> [p \in QuickPhones |-> "null"], calls |-> <<>>]
  /\ pongs = 0
  /\ heartbeats = <<>>

NextQuick ==
  \/ \E phone \in QuickPhones, fails \in BOOLEAN : QuickCall(phone, fails)
  \/ \E i \in 1..Len(quick.calls) : QuickLookupSettles(i)
  \/ \E i \in 1..Len(quick.calls) : QuickTimerFires(i)
  \/ \E phone \in QuickPhones : QuickSave(phone)

SpecQuick == InitQuick /\ [][NextQuick]_vars

\* ------------------------------------- recovery at setup, on its own
NoRecent == [has |-> FALSE, messages |-> <<>>, ended |-> FALSE, started_at |-> 0]

\* the turn an earlier call stores at position i of its transcript
RecentTurn(i) ==
  IF i = 1 THEN NewCallerSystemTurn
  ELSE IF i % 2 = 0 THEN <<"user", i \div 2>>
  ELSE <<"assistant", i \div 2>>

IsRecoverableAnyAge(row, t) == row.has /\ ~row.ended /\ row.messages # <<>>

\* recentConvs.length > 0 && !ended_at, timeSinceStart < 300 with
\* timeSinceStart = Date.now() / 1000 - started_at, messages.length > 0
IsRecoverable(row, t) ==
  /\ row.has
  /\ ~row.ended
  /\ t < (row.started_at + RecoveryWindow) * 1000
  /\ row.messages # <<>>

RUnchanged ==
  UNCHANGED <<conn, callSid, phoneNumber, currentAbort, aborted, sessions,
              streams, queues, nPrompts, gen, root, withUser, chunks, pacing,
              timers, qDuring, stopSent, svars, uvars, tvars, nvars, mq,
              mqN, bvars>>

\* createConversation of an earlier call of the phone number: started_at
\* defaults to unixepoch()
RecentCreate ==
  /\ conn = "new"
  /\ ~recentConv.has
  /\ recentConv' = [has |-> TRUE, messages |-> <<>>, ended |-> FALSE,
                    started_at |-> now \div 1000]
  /\ now' = now
  /\ UNCHANGED <<sc, sessionStore, quick, yvars>>
  /\ RUnchanged

\* updateConversationMessages of that call: its transcript as it stands,
\* with the end-of-call marker or without
RecentUpdate(grown, ended) ==
  /\ conn = "new"
  /\ recentConv.has
  /\ ~recentConv.ended
  /\ grown => Len(recentConv.messages) < MaxRecentTurns
  /\ recentConv' =
       [recentConv EXCEPT
          !.messages = IF grown THEN Append(@, RecentTurn(Len(@) + 1)) ELSE @,
          !.ended = ended]
  /\ now' = now
  /\ UNCHANGED <<sc, sessionStore, quick, yvars>>
  /\ RUnchanged

\* half a recovery window passes
RecentWait ==
  /\ now < MaxAge * 1000
  /\ now' = now + (RecoveryWindow \div 2) * 1000
  /\ recentConv' = recentConv
  /\ UNCHANGED <<sc, sessionStore, quick, yvars>>
  /\ RUnchanged

\* handleSetup of a new call of the phone number, no row being stored under
\* its call id: recovery from the recent conversation, createConversation,
\* the caller lookup and getOrInit with the system turn chosen
SetupRecover(known) ==
  /\ conn = "new"
  /\ phoneNumber # NoPhone
  /\ ~conv.has
  /\ conn' = "open"
  /\ callSid' = CallId
  /\ setupPc' = "done"
  /\ sessions' = SessionGetOrInit(
                    IF IsRecoverable(recentConv, now)
                      THEN Session(recentConv.messages)
                      ELSE sessions,
                    <<CallerSystemTurn(known)>>)
  /\ SetStore(CreateConversation(BwState))
  /\ UNCHANGED <<phoneNumber, currentAbort, aborted, streams, queues, now,
                 nPrompts, gen, root, withUser, chunks, pacing, timers,
                 qDuring, stopSent, conv, endWritten, setupDeadline, tvars,
                 nameIn, savedName, mq, mqN, bvars, xvars>>
  /\ relayState' = SetNewCaller(relayState, ~known)

InitRecover ==
  /\ InitWith({Phone})
  /\ mq = <<>>
  /\ mqN = 0
  /\ BwUnitIdle
  /\ recentConv = NoRecent
  /\ sc = <<>>
  /\ sessionStore = <<>>
  /\ quick = <<>>
  /\ pongs = 0
  /\ heartbeats = <<>>

NextRecover ==
  \/ RecentCreate
  \/ \E grown \in BOOLEAN, ended \in BOOLEAN : RecentUpdate(grown, ended)
  \/ RecentWait
  \/ \E known \in BOOLEAN : SetupRecover(known)

\* an earlier call of the phone number stores its conversation, time
\* passes, and a new call is set up
SpecRecover == InitRecover /\ [][NextRecover]_vars

\* ---------------------------------------------------------------- claims
Started(status) == status \in {"wait", "streaming", "ok", "err"}

Ended(status) == status \in {"ok", "err"}

\* the newest entry of the queue is the unprocessed entry of prompt id
NewestIs(q, id) ==
  /\ q.has
  /\ q.items # <<>>
  /\ q.items[Len(q.items)].id = id
  /\ ~q.items[Len(q.items)].processed

StartsIn(k) == ~Started(gen[k]) /\ gen'[k] = "wait"

\* C1: at most one generation is in flight for the call in every reachable
\* state.  A generation is in flight from the start of its processPrompt
\* until that processPrompt has seen its stream end or throw.
C1_SingleFlight == Cardinality({k \in Prompts : InFlight(k)}) <= 1

\* C2: generations start in the order the prompts arrived: when the
\* generation of prompt k starts, no generation of a later prompt has
\* started before it.
C2_ArrivalOrder ==
  [][\A k \in Prompts :
       StartsIn(k) => \A j \in Prompts : j > k => ~Started(gen[j])]_vars

\* C3: a non-stop prompt arriving while the coordinator holds the call
\* active is handed to the queue (below capacity it is appended as the
\* newest entry, unless the queue drops it as a duplicate of an entry under
\* deduplicationWindow old) and nothing else happens: no generation
\* starts, no controller is aborted or replaced, no timer is armed and the
\* transcript and the coordinator are unchanged.
C3_ActivePromptIsQueued ==
  [][(/\ nPrompts' = nPrompts + 1
      /\ callSid # NoSid
      /\ streams.has /\ streams.isActive
      /\ stopSent' = stopSent
      /\ Len(queues.items) < maxQueueSize)
     => (/\ \A j \in Prompts : Started(gen'[j]) => gen'[j] = gen[j]
         /\ ~Started(gen'[nPrompts'])
         /\ aborted' = aborted
         /\ currentAbort' = currentAbort
         /\ timers' = timers
         /\ sessions' = sessions
         /\ withUser' = withUser
         /\ streams' = streams
         /\ \/ /\ gen'[nPrompts'] = "queued"
               /\ queues' = [has |-> TRUE,
                             items |-> Append(queues.items,
                                         [id |-> nPrompts + 1,
                                          type |-> "prompt",
                                          content |-> "pikachu",
                                          timestamp |-> now,
                                          processed |-> FALSE])]
            \/ /\ gen'[nPrompts'] = "dropped"
               /\ IsDuplicate(queues.items, "prompt", "pikachu", now)
               /\ queues' = queues)]_vars

\* C3 witness: a prompt sits in the queue, accepted while the generation
\* that is still running unaborted held the call active.
C3_Witness ==
  \E k \in Prompts :
    /\ gen[k] = "queued"
    /\ qDuring[k] # 0
    /\ InFlight(qDuring[k])
    /\ aborted[qDuring[k]] = "none"
    /\ currentAbort = qDuring[k]
    /\ streams.has /\ streams.isActive
    /\ NewestIs(queues, k)

\* C4: for prompts A then B queued during the same generation, which then
\* completed: B's generation starts only once A's generation has ended.
C4_QueuedOrder ==
  [][\A a, b \in Prompts :
       (/\ a < b
        /\ qDuring[a] # 0
        /\ qDuring[a] = qDuring[b]
        /\ gen[qDuring[a]] = "ok"
        /\ StartsIn(b))
       => Ended(gen[a])]_vars

\* C5: with the connection open, a prompt waiting in the queue always has
\* something under way that will reach it: a generation in flight or a
\* dequeued entry waiting out the pacing delay.
C5_QueuedIsServed ==
  (conn = "open" /\ \E k \in Prompts : gen[k] = "queued")
    => \E j \in Prompts : gen[j] \in {"pacing", "wait", "streaming"}

\* C6: every end of a generation registers the stream end, so with no
\* generation in flight the coordinator does not hold the call active.
C6_IdleIsInactive ==
  (callSid # NoSid /\ \A k \in Prompts : ~InFlight(k))
    => ~(streams.has /\ streams.isActive)

\* C6 witness: a generation has ended in the catch block, the coordinator
\* holds an inactive entry for the call, and a later prompt was then
\* processed immediately and has completed in turn.
C6_Witness ==
  \E j, k \in Prompts :
    /\ j < k
    /\ gen[j] = "err"
    /\ gen[k] = "ok"
    /\ qDuring[k] = 0
    /\ \A i \in Prompts : ~InFlight(i)
    /\ conn = "open"
    /\ streams.has /\ ~streams.isActive

\* C7: once the close handler has run, the call has no queue entry, no
\* coordinator entry and no session entry, in every later state.
C7_ClosedIsClean ==
  (conn = "closed" /\ callSid # NoSid)
    => (queues = NoQueue /\ streams = NoStream /\ sessions = NoSession)

\* C8: once the connection has closed, every generation still in flight
\* has been aborted and no generation starts.
C8_ClosedIsQuiet ==
  [][conn = "closed"
       => (/\ \A k \in Prompts : InFlight(k) => aborted[k] # "none"
           /\ \A k \in Prompts : ~StartsIn(k))]_vars

\* C9: once the store has applied the write carrying the end-of-call
\* marker, the stored transcript and the marker do not change any more.
C9_EndWriteIsLast == [][endWritten => conv' = conv]_vars

\* C10: whenever the setup handler is suspended on a store read, a deadline
\* timer is racing that read.
C10_ReadsHaveDeadline ==
  setupPc \in {"getConversationBySid", "getRecentConversation",
               "getCallerQuickly", "getConversationContext"}
    => setupDeadline

\* the entry enqueue creates
NewEntry(id, type, content, t) ==
  [id |-> id, type |-> type, content |-> content, timestamp |-> t,
   processed |-> FALSE]

Ids(items) == [i \in 1..Len(items) |-> items[i].id]

\* C11: a queue never holds more than maxQueueSize entries, and a message
\* that duplicates no entry, enqueued onto a full queue, evicts exactly the
\* oldest entry and is appended at the tail.
C11_BoundedQueue ==
  [][\A c \in MqCalls :
       /\ Len(mq'[c].items) <= maxQueueSize
       /\ \A type \in MqTypes, content \in 1..(MqPrefill + MaxEnqueues) :
            (/\ Len(mq[c].items) = maxQueueSize
             /\ mq'[c] # mq[c]
             /\ ~IsDuplicate(mq[c].items, type, content, now)
             /\ MqEnqueue(c, type, content))
            => mq'[c].items =
                 Append(Tail(mq[c].items),
                        NewEntry(mqN + 1, type, content, now))]_vars

\* C11 witness: after 11 distinct enqueues with nothing dequeued the queue
\* holds entries 2 to 11 in enqueue order.
C11_Witness ==
  /\ mqN = maxQueueSize + 1
  /\ Ids(mq["CA1"].items) = [i \in 1..maxQueueSize |-> i + 1]
  /\ \A i \in 1..maxQueueSize : mq["CA1"].items[i].content = i + 1

\* C12: enqueue rejects the message and adds no entry when the call's queue
\* holds an unprocessed entry of the same kind and content less than
\* deduplicationWindow old, and otherwise accepts it and appends it.
C12_Deduplication ==
  [][\A c \in MqCalls, type \in MqTypes,
        content \in 1..(MqPrefill + MaxEnqueues) :
       (mq'[c] # mq[c] /\ MqEnqueue(c, type, content))
       => IF IsDuplicate(mq[c].items, type, content, now)
            THEN /\ mqN' = mqN
                 /\ \A i \in 1..Len(mq'[c].items) :
                      \E j \in 1..Len(mq[c].items) :
                        mq'[c].items[i] = mq[c].items[j]
            ELSE /\ mqN' = mqN + 1
                 /\ mq'[c].items # <<>>
                 /\ mq'[c].items[Len(mq'[c].items)] =
                      NewEntry(mqN + 1, type, content, now)]_vars

\* what repeating getNext and markProcessed yields, as ids
RECURSIVE Drain(_)
Drain(q) ==
  IF GetNextOrNull(q) = 0 THEN <<>>
  ELSE <<GetNextOrNull(q)>> \o Drain(MarkProcessed(q, GetNextOrNull(q)))

\* C13: getNext returns the call's unprocessed entry that was enqueued
\* earliest (ids are given in enqueue order), or null when there is none,
\* and draining the queue yields its entries in enqueue order.
C13_Fifo ==
  \A c \in MqCalls :
    /\ \A i, j \in 1..Len(mq[c].items) :
         i < j => mq[c].items[i].id < mq[c].items[j].id
    /\ IF \E i \in 1..Len(mq[c].items) : ~mq[c].items[i].processed
         THEN /\ GetNextOrNull(mq[c]) # 0
              /\ \A i \in 1..Len(mq[c].items) :
                   ~mq[c].items[i].processed
                     => GetNextOrNull(mq[c]) <= mq[c].items[i].id
              /\ \E i \in 1..Len(mq[c].items) :
                   /\ ~mq[c].items[i].processed
                   /\ mq[c].items[i].id = GetNextOrNull(mq[c])
         ELSE GetNextOrNull(mq[c]) = 0
    /\ Drain(mq[c]) = Ids(mq[c].items)

\* C13 witness: a queue whose oldest entries were taken and which still
\* holds several entries, one of them created after the takes began.
C13_Witness ==
  /\ Len(mq["CA1"].items) >= 2
  /\ mq["CA1"].items[1].id = MqEvicted(MqPrefill) + 3
  /\ mq["CA1"].items[Len(mq["CA1"].items)].id > MqPrefill

QueueWellFormed(q) ==
  IF q.has
    THEN /\ q.items # <<>>
         /\ \A i \in 1..Len(q.items) : ~q.items[i].processed
    ELSE /\ q.items = <<>>
         /\ ~HasPending(q)
         /\ GetPendingCount(q) = 0

\* C14: after every step no stored queue is empty or holds a processed
\* entry; a markProcessed that finds its entry removes it, and removes the
\* call's queue when that was the last entry.
C14_NoEmptyQueue ==
  [][\A c \in MqCalls :
       /\ QueueWellFormed(mq'[c])
       /\ \A id \in 1..(MqPrefill + MaxEnqueues) :
            (/\ mq'[c] # mq[c]
             /\ MarkProcessedFinds(mq[c], id)
             /\ MqMarkProcessed(c, id))
            => /\ ~MarkProcessedFinds(mq'[c], id)
               /\ Len(mq'[c].items) = Len(mq[c].items) - 1
               /\ Len(mq[c].items) = 1
                    => (mq'[c] = NoQueue /\ ~HasPending(mq'[c]))]_vars

\* C14 witness: markProcessed has removed all entries of the first call's
\* queue but the newest, and removed the only entry of the second call's
\* queue, which is gone.
C14_Witness ==
  /\ mqN = MqPrefill + 1
  /\ Ids(mq["CA1"].items) = <<MqPrefill>>
  /\ mq["CA2"] = NoQueue

\* the items a batch holds for call c
ItemsOf(batch, c) == {i \in 1..Len(batch) : batch[i].callSid = c}

Update(item) == [messages |-> item.messages, ended |-> item.ended]

\* C15: however often enqueue is called for a call between two flushes,
\* the pending map and every batch handed to the store hold one item for
\* the call, and the pending one carries the transcript and the ended flag
\* of the last enqueue for that call.
C15_LastWriteWins ==
  \A c \in BwCalls :
    /\ Cardinality(ItemsOf(bq, c)) <= 1
    /\ \A i \in ItemsOf(bq, c) : Update(bq[i]) = bqLast[c]
    /\ \A b \in 1..Len(bqWrites) : Cardinality(ItemsOf(bqWrites[b], c)) <= 1
    /\ (bqWrites # <<>> /\ ItemsOf(bq, c) = {})
         => \A i \in ItemsOf(bqWrites[Len(bqWrites)], c) :
              Update(bqWrites[Len(bqWrites)][i]) = bqLast[c]

\* C15 witness: three enqueues for one call (the one that made its item
\* pending and two more) and then a flush: the batch holds one item for the
\* call, with the third transcript.
C15_Witness ==
  /\ bqN = 2
  /\ bq = <<>>
  /\ Len(bqWrites) = 1
  /\ Len(bqWrites[1]) = BwPrefill
  /\ bqWrites[1][1] = BatchItem(1, BwPrefill + 2, FALSE)

\* C16: an enqueue with ended = true leaves the pending map empty and no
\* timer armed, and hands the store one batch with everything that was
\* pending and the ended item.
C16_EndedFlushesAll ==
  [][\A c \in BwCalls, m \in 1..(BwPrefill + MaxBwEnqueues) :
       (bqN' # bqN /\ BqEnqueue(c, m, TRUE))
       => /\ bq' = <<>>
          /\ bqTimer' = NoTimer
          /\ bqWrites' = Append(bqWrites,
                                BatchSet(bq, BatchItem(c, m, TRUE)))
          /\ \A d \in BwCalls :
               (d = c \/ BatchHas(bq, d))
                 => BatchHas(bqWrites'[Len(bqWrites')], d)]_vars

\* C16 witness: an ended enqueue arrived while no timer was armed and one
\* while other calls were pending; both batches went out.
C16_Witness ==
  /\ bq = <<>>
  /\ ~bqTimer.armed
  /\ \E a, b \in 1..Len(bqWrites) :
       /\ Len(bqWrites[a]) = 1
       /\ bqWrites[a][1].ended
       /\ Len(bqWrites[b]) > 1
       /\ bqWrites[b][Len(bqWrites[b])].ended

\* C17: after every step fewer than maxBatchSize calls are pending, and the
\* enqueue that brings their number to maxBatchSize flushes them all.
C17_BelowThreshold ==
  [][/\ Len(bq') < maxBatchSize
     /\ \A c \in BwCalls, m \in 1..(BwPrefill + MaxBwEnqueues),
           e \in BOOLEAN :
          (/\ bqN' # bqN
           /\ Len(BatchSet(bq, BatchItem(c, m, e))) = maxBatchSize
           /\ BqEnqueue(c, m, e))
          => /\ bq' = <<>>
             /\ bqWrites' = Append(bqWrites,
                                   BatchSet(bq, BatchItem(c, m, e)))]_vars

\* C17 witness: a batch of maxBatchSize calls, none ended, went out.
C17_Witness ==
  \E b \in 1..Len(bqWrites) :
    /\ Len(bqWrites[b]) = maxBatchSize
    /\ \A i \in 1..Len(bqWrites[b]) : ~bqWrites[b][i].ended

\* nothing of call c is on its way and the store holds the last update
\* handed in for it
Written(c) ==
  /\ ~BatchHas(bq, c)
  /\ \A b \in 1..Len(bqWrites) : ~BatchHas(bqWrites[b], c)
  /\ bqStore[c] = bqLast[c]

LastTurnIs(s, k) ==
  /\ s.has
  /\ s.msgs # <<>>
  /\ s.msgs[Len(s.msgs)] = AssistantTurn(k)

\* a stop request was handled while the abort controller of generation k
\* was the current one
StoppedDuring(k) == \E j \in Prompts : stopDuring[j].gen = k

\* the same, while sendStream was consuming the stream of generation k
StoppedWhileStreaming(k) ==
  \E j \in Prompts : stopDuring[j].gen = k /\ stopDuring[j].streaming

\* C19: a stop request handled while the coordinator reports the call
\* active sends one stop envelope and does nothing else: no generation is
\* aborted or started, the queue and the transcript stay as they are.  The
\* generation it arrived during, when it completes with text, still has
\* its assistant turn appended to the transcript.
C19_StopIsOnlyAStop ==
  [][/\ (/\ nPrompts' # nPrompts
         /\ callSid # NoSid
         /\ IsStreamActive(streams)
         /\ HandlePrompt("stop", MaxPrompts))
        => /\ stopSent' = stopSent + 1
           /\ aborted' = aborted
           /\ currentAbort' = currentAbort
           /\ queues' = queues
           /\ sessions' = sessions
           /\ withUser' = withUser
           /\ streams' = streams
           /\ \A k \in Prompts : InFlight(k) <=> InFlight(k)'
     /\ \A k \in Prompts :
          (/\ gen[k] = "streaming"
           /\ gen'[k] = "ok"
           /\ StoppedDuring(k)
           /\ chunks[k] > 0
           /\ callSid # NoSid
           /\ GenComplete(k))
          => LastTurnIs(sessions', k)]_vars

\* C19 witness: the second prompt was a stop request handled during the
\* first generation, which has completed since; one stop envelope was
\* sent and the transcript ends with the generation's assistant turn.
C19_Witness ==
  /\ nPrompts = 2
  /\ stopDuring[2].gen = 1
  /\ stopSent = 1
  /\ gen[1] = "ok"
  /\ gen[2] = "dropped"
  /\ LastTurnIs(sessions, 1)

\* C20: once a stop request was handled while generation k was streaming,
\* the chunks sendStream takes from k are accumulated but no text envelope
\* is sent for them.
C20_StopSuppressesText ==
  [][\A k \in Prompts :
       (/\ StoppedWhileStreaming(k)
        /\ gen[k] = "streaming"
        /\ StreamChunk(k))
       => /\ chunks'[k] = chunks[k] + 1
          /\ textSent'[k] = textSent[k]]_vars

\* C21: an interrupt envelope received while a generation of the call is
\* in flight aborts no abort controller and starts no generation.
C21_InterruptNeverAborts ==
  [][(/\ callSid # NoSid
      /\ \E k \in Prompts : InFlight(k)
      /\ HandleInterrupt)
     => aborted' = aborted]_vars

\* C22: between the first text envelope of a generation and the end of its
\* sendStream loop, which sends its terminator, no text envelope of another
\* generation is sent on the connection.
C22_NoInterleaving ==
  [][\A j, k \in Prompts :
       (/\ j # k
        /\ gen[k] = "streaming"
        /\ textSent[k] > 0)
       => textSent'[j] <= textSent[j]]_vars

\* the transcript handleSetup leaves in the session is only a system turn
\* it has chosen
OnlySystemTurn(s) ==
  s.has /\ s.msgs \in {<<NewCallerSystemTurn>>, <<ReturningSystemTurn>>}

\* C23: at the setup of a call with a phone number and no row stored under
\* its call id, the session holds exactly the transcript of the phone
\* number's latest conversation when that is unterminated, non-empty and
\* started less than RecoveryWindow seconds ago, and only the newly chosen
\* system turn when it is terminated or older.
C23_RecoversRecent ==
  [][(conn = "new" /\ conn' = "open" /\ recentConv.has)
     => IF recentConv.ended
             \/ now >= (recentConv.started_at + RecoveryWindow) * 1000
          THEN OnlySystemTurn(sessions')
          ELSE recentConv.messages # <<>>
                 => sessions' = Session(recentConv.messages)]_vars

\* C23 witness: a conversation of two turns stored half a recovery window
\* ago and not terminated is the session of the new call.
C23_Witness ==
  /\ conn = "open"
  /\ recentConv.has
  /\ ~recentConv.ended
  /\ Len(recentConv.messages) = 2
  /\ now = (recentConv.started_at + RecoveryWindow \div 2) * 1000
  /\ sessions = Session(recentConv.messages)

\* C24: in a call set up for a phone number without a stored name, the
\* first prompt that introduces a name, arriving while no stream is
\* active, has the name saved and the system turn rewritten before its
\* generation starts, and is processed at once.
C24_NameIsLearned ==
  [][\A text \in NameTexts :
       (/\ nPrompts' # nPrompts
        /\ callSid # NoSid
        /\ phoneNumber # NoPhone
        /\ ExtractName(text) # "none"
        /\ ~savedName
        /\ sessions.has
        /\ sessions.msgs[1] = NewCallerSystemTurn
        /\ ~IsStreamActive(streams)
        /\ HandlePrompt(text, MaxPromptsName))
       => /\ gen'[nPrompts'] = "wait"
          /\ savedName'
          /\ sessions'.msgs[1] = NamedSystemTurn]_vars

\* C25: registerStreamStart for a call that is active and not stale leaves
\* its entry as it is and returns false; otherwise it returns true and the
\* call is active afterwards, started and last active now.  After
\* registerStreamEnd or clearCall the call is not active.
C25_StartIsExclusive ==
  [][\A c \in MqCalls :
       /\ ScCall(c, "registerStreamStart")
          => IF sc[c].has /\ sc[c].isActive
                  /\ now - sc[c].lastActivity <= streamTimeout
               THEN sc'[c] = sc[c] /\ ScActive(sc[c], now)
               ELSE /\ ~ScActive(sc[c], now)
                    /\ ScActive(sc'[c], now)
                    /\ sc'[c].startedAt = now
                    /\ sc'[c].lastActivity = now
       /\ (ScCall(c, "registerStreamEnd") \/ ScCall(c, "clearCall"))
          => ~ScActive(sc'[c], now)]_vars

\* C25 witness: a stale entry was started anew, long after its first start.
C25_Witness ==
  \E c \in MqCalls :
    /\ sc[c].has
    /\ sc[c].isActive
    /\ sc[c].startedAt > streamTimeout
    /\ sc[c].startedAt = sc[c].lastActivity

\* C26: an active entry whose last activity is more than streamTimeout old
\* is reported inactive, one whose last activity is within streamTimeout is
\* reported active whenever it started; updateActivity leaves an inactive
\* entry alone, and an inactive entry becomes active only by a new start.
C26_StaleIsInactive ==
  /\ [](\A c \in MqCalls :
          (sc[c].has /\ sc[c].isActive)
            => (ScActive(sc[c], now)
                  <=> now - sc[c].lastActivity <= streamTimeout))
  /\ [][\A c \in MqCalls :
          (sc[c].has /\ ~sc[c].isActive)
            => /\ ScCall(c, "updateActivity") => sc'[c] = sc[c]
               /\ ScActive(sc'[c], now')
                    => (sc'[c].startedAt = now /\ sc'[c].lastActivity = now)
       ]_vars

\* C26 witness: a call started more than streamTimeout ago is active by its
\* heartbeat, and another was marked inactive without having been ended:
\* its last activity is more than streamTimeout old.
C26_Witness ==
  /\ sc["CA1"].isActive
  /\ now - sc["CA1"].startedAt > streamTimeout
  /\ ScActive(sc["CA1"], now)
  /\ sc["CA2"].has
  /\ ~sc["CA2"].isActive
  /\ sc["CA2"].startedAt = sc["CA2"].lastActivity
  /\ now - sc["CA2"].lastActivity > streamTimeout

\* C27: every operation and event of call CA1 (enqueue with eviction and
\* duplicate filtering, markProcessed, clear, stream start, end, heartbeat,
\* stale reclamation, a failed generation, setup, a stored turn, close)
\* leaves the queue, the stream entry and the session of call CA2 as they
\* are.
C27_CallsAreIsolated ==
  [][\A y \in MqCalls \ {"CA1"} :
       /\ mq'[y] = mq[y]
       /\ sc'[y] = sc[y]
       /\ sessionStore'[y] = sessionStore[y]]_vars

\* C27 witness: call CA1 was closed after its overdue stream was reclaimed
\* and restarted, while call CA2 holds a full queue, a stream and a session.
C27_Witness ==
  /\ now > streamTimeout
  /\ mq["CA1"] = NoQueue
  /\ sc["CA1"] = NoEntry
  /\ sessionStore["CA1"] = NoSession
  /\ mqN > MqPrefill
  /\ mq["CA2"] = MqFilled
  /\ sc["CA2"].isActive
  /\ sessionStore["CA2"].has

\* C28: while the call is open and has a session, the first turn of the
\* session is a system turn and a step only appends turns after it, under
\* every interleaving of setup and prompts.
C28_TranscriptGrows ==
  /\ []((conn = "open" /\ sessions.has)
          => (sessions.msgs # <<>> /\ sessions.msgs[1][1] = "system"))
  /\ [][(conn = "open" /\ sessions.has /\ conn' = "open")
          => /\ sessions'.has
             /\ Len(sessions'.msgs) >= Len(sessions.msgs)
             /\ \A i \in 2..Len(sessions.msgs) :
                  sessions'.msgs[i] = sessions.msgs[i]]_vars

TimerArmed(k) == \E i \in 1..Len(timers) : timers[i] = k

\* C29: a generation in flight whose deadline timer fires is aborted by
\* then, a generation in flight that is not aborted has its deadline timer
\* armed, and no timer stays armed once the processPrompt call that armed
\* it has returned, whether by completion, error or abort.
C29_DeadlineAbortsAndIsCleared ==
  /\ [](\A k \in Prompts :
          /\ (InFlight(k) /\ aborted[k] = "none") => TimerArmed(k)
          /\ TimerArmed(k) => root[k] # 0)
  /\ [][(timers # <<>> /\ timers' = Tail(timers) /\ gen' = gen
           /\ InFlight(Head(timers)) /\ TimerFire)
          => aborted'[Head(timers)] # "none"]_vars

\* C29 witness: the deadline of a generation in flight has fired and
\* aborted it, after an earlier processPrompt call returned with its timer
\* cleared.
C29_Witness ==
  \E j, k \in Prompts :
    /\ InFlight(k)
    /\ aborted[k] = "timeout"
    /\ ~TimerArmed(k)
    /\ gen[j] \in {"ok", "err"}
    /\ ~TimerArmed(j)

\* C30: a getCallerQuickly call never rejects; once settled its result is
\* the lookup's result when the lookup settled before the timer (null for
\* a failing lookup) and null when the timer fired first, and whichever of
\* the two comes later changes neither the result nor the callers table.
C30_QuickLookup ==
  /\ [](\A i \in 1..Len(quick.calls) :
          LET call == quick.calls[i] IN
            /\ call.result # "rejected"
            /\ call.lookupDone => call.result = call.lookup
            /\ (call.timer = "fired" /\ ~call.lookupDone)
                 => call.result = "null")
  /\ [][\A i \in 1..Len(quick.calls) :
          quick.calls[i].result # "unsettled"
            => /\ quick'.calls[i].result = quick.calls[i].result
               /\ (QuickLookupSettles(i) \/ QuickTimerFires(i))
                    => quick'.table = quick.table]_vars

\* C30 witness: a call returned the caller's name and its timer fired
\* afterwards, and a call whose statement threw returned null.
C30_Witness ==
  \E i, j \in 1..Len(quick.calls) :
    /\ quick.calls[i].result = "Ash"
    /\ quick.calls[i].timer = "fired"
    /\ quick.table[quick.calls[j].phone] = "Ash"
    /\ quick.calls[j].lookup = "null"
    /\ quick.calls[j].result = "null"

\* C31: handling a ping sends exactly one pong, handling an envelope of
\* unknown type, an unparseable payload or a prompt without text sends
\* none; all of them leave the session, the queue, the stream state, the
\* abort controller, the generations and the connection as they are.
C31_OtherEnvelopesChangeNothing ==
  [][\A payload \in Envelopes :
       HandleEnvelope(payload)
         => /\ pongs' = IF payload = "ping" THEN pongs + 1 ELSE pongs
            /\ UNCHANGED <<sessions, queues, streams, currentAbort, aborted,
                           gen, nPrompts, conn>>]_vars

\* C31 witness: pongs were sent and the connection went on to stream a
\* generation with a prompt queued behind it.
C31_Witness ==
  /\ pongs = MaxPings
  /\ conn = "open"
  /\ queues.has
  /\ \E k \in Prompts : gen[k] = "streaming"

\* C32: a step that changes the stored row is no handler step and no
\* enqueue: it leaves the connection, the generations, the session, the
\* queue, the stream state and the batch writer's pending update and timer
\* as they are; and a setImmediate callback whose statement throws leaves
\* the stored row, the session, the queue and the stream state as they are.
C32_WritesRunLater ==
  /\ [][conv' # conv
          => UNCHANGED <<conn, nPrompts, gen, sessions, queues, streams,
                         bwQueue, bwTimer>>]_vars
  /\ [][(immediates' # immediates /\ ImmediateRun(TRUE))
          => UNCHANGED <<conv, sessions, queues, streams>>]_vars

\* C32 witness: the update of a finished generation is in the store while
\* the update that marks the end of the call was dropped by a throwing
\* statement.
C32_Witness ==
  /\ conn = "closed"
  /\ immediates = <<>>
  /\ ~bwQueue.has
  /\ conv.has
  /\ conv.messages # <<>>
  /\ ~conv.ended

\* C33: the cleanup sweep deletes the entries that are marked inactive and
\* were last active more than staleThreshold ago and leaves every other
\* entry, those marked active among them, as it is; what isStreamActive
\* returns for a call is the same before and after the sweep.
C33_CleanupSweepsInactive ==
  [][ScCleanup =>
       \A c \in MqCalls :
         /\ IF sc[c].has /\ ~sc[c].isActive
                 /\ now - sc[c].lastActivity > staleThreshold
              THEN ~sc'[c].has
              ELSE sc'[c] = sc[c]
         /\ ScActive(sc'[c], now) = ScActive(sc[c], now)]_vars

\* C33 witness: the sweep has something to delete while an entry as old
\* is still marked active and one heartbeated lately is active.
C33_Witness ==
  /\ sc["CA1"].has
  /\ ~sc["CA1"].isActive
  /\ now - sc["CA1"].lastActivity > staleThreshold
  /\ sc["CA2"].isActive
  /\ now - sc["CA2"].startedAt > staleThreshold
  /\ ScActive(sc["CA2"], now)

\* C34: the activity interval of a generation runs only while that
\* generation is streaming.
C34_HeartbeatStopsWithGeneration ==
  \A k \in DOMAIN heartbeats : heartbeats[k] => gen[k] = "streaming"

\* C35: an enqueue that is rejected as a duplicate leaves the queue of the
\* call as it was.
C35_RejectedEnqueueKeepsQueue ==
  [][\A c \in MqCalls, type \in MqTypes,
        content \in 1..(MqPrefill + MaxEnqueues) :
       (/\ mq'[c] # mq[c]
        /\ ~EnqueueAccepts(mq[c], type, content, now)
        /\ MqEnqueue(c, type, content))
       => mq'[c].items = mq[c].items]_vars

\* C36: while the connection of a call with a call id is open and one of
\* its generations is in flight, the coordinator reports the call active.
C36_InFlightIsActive ==
  (conn = "open" /\ callSid # NoSid /\ \E k \in Prompts : InFlight(k))
    => IsStreamActive(streams)

\* C37: for a call with a call id a generation starts only in a step whose
\* registerStreamStart returned true, that is with the call not active
\* before the step.
C37_StartsOnlyWhenRegistered ==
  [][\A k \in Prompts :
       (callSid # NoSid /\ gen[k] # "wait" /\ gen'[k] = "wait")
         => ~IsStreamActive(streams)]_vars

UserTurnsOf(k) ==
  {i \in 1..Len(sessions.msgs) : sessions.msgs[i] = UserTurn(k)}

\* C38: the transcript never holds the user turn of a prompt twice; a
\* prompt whose generation has been dispatched is no longer in the queue,
\* so getNext does not return it and another markProcessed for it finds
\* nothing and changes nothing; and a generation starts for a prompt only
\* from its arrival or from its one dispatch, never a second time.
C38_OneGenerationPerPrompt ==
  /\ [](\A k \in Prompts :
          /\ Cardinality(UserTurnsOf(k)) <= 1
          /\ gen[k] \notin {"none", "queued"}
               => /\ ~MarkProcessedFinds(queues, k)
                  /\ MarkProcessed(queues, k) = queues
                  /\ HasPending(queues) => GetNext(queues).id # k)
  /\ [][gen' # gen =>
          \A k \in Prompts :
            (gen[k] # "wait" /\ gen'[k] = "wait")
              => gen[k] \in {"none", "pacing"}]_vars

\* C38 witness: a prompt that waited in the queue was dispatched and
\* answered, and its user turn is in the transcript once.
C38_Witness ==
  \E k \in Prompts :
    /\ qDuring[k] # 0
    /\ gen[k] = "ok"
    /\ Cardinality(UserTurnsOf(k)) = 1

\* C39: a generation is aborted with reason timeout only by the deadline
\* timer that was armed for it, so never before its own deadline, also when
\* it was started by draining the queue after an earlier generation.
C39_TimerAbortsItsOwnGeneration ==
  [][aborted' # aborted =>
       \A k \in Prompts :
         (aborted[k] # "timeout" /\ aborted'[k] = "timeout")
           => (timers # <<>> /\ Head(timers) = k)]_vars

\* C40: in the BatchWriter, whenever enqueue, the flush timer's callback
\* or forceFlush has returned, a flush timer is armed if and only if the
\* pending map holds an item.
C40_TimerArmedIffPending ==
  bqTimer.armed <=> bq # <<>>

\* C40 witness: after a flush that emptied the map (its writes are still
\* to run), a further enqueue left an item pending with the timer armed.
C40_Witness ==
  /\ bqN >= 1
  /\ bqWrites # <<>>
  /\ bq # <<>>
  /\ bqTimer.armed


====
